---- MODULE Spec2Model ----
(***************************************************************************)
(* Model of the cache store (cache.py, class Caches) and of the fetch      *)
(* coordinator (fetcher.py, class YfData) of the YFinance scraper.         *)
(*                                                                         *)
(* A file name is a sequence of atoms (strings); the cache directory is a  *)
(* function from the names of the files that exist to their content.      *)
(* A table (pandas DataFrame) is a sequence of rows; a row carries its     *)
(* index stamp (day, time of day) and one value column.                    *)
(***************************************************************************)
EXTENDS Integers, Sequences, FiniteSets, TLC

(* ------------------------------ bounds --------------------------------- *)
MaxOps == 2          \* top-level calls made by the caller in one behaviour
MaxRetries == 3      \* largest max_retries a fetcher is constructed with

(* ------------------------- program constants --------------------------- *)
base_delay == 3      \* YfData.__init__ default base_delay

(* ------------------------------ inputs --------------------------------- *)
Tickers == {"AAPL", "MSFT"}
Intervals == {"1d"}

\* the range-mode requests <<ticker, start, end>> the caller makes, directly
\* or through the fetch coordinator: two spellings of one start with
\* different ends, a start that does not parse, and another ticker
RangeRequests ==
    {<<"AAPL", "2023-01-01", "2023-06-30">>, <<"AAPL", "2023-01-01 09:30", "2023-12-31">>,
     <<"AAPL", "not-a-date", "2023-06-30">>, <<"MSFT", "2023-01-01", "2023-06-30">>}

\* a row of a table: its index stamp (day, minutes after midnight) and a
\* value; rows of even days are stamped intraday (09:30)
TodOf(d) == IF d % 2 = 0 THEN 570 ELSE 0
Row(d) == [day |-> d, tod |-> TodOf(d), close |-> 149 + d]
\* the tables the caller puts and the network returns: the empty one, one
\* with a date-only index, one with an intraday stamp in its index
EmptyTable == <<>>
Tables == {EmptyTable, <<Row(1)>>, <<Row(1), Row(2)>>}

(* ---------------------------- file content ----------------------------- *)
\* the exceptions pickle.load raises on damaged bytes
LoadErrors == {"UnpicklingError", "EOFError", "AttributeError", "ValueError"}
\* except (pickle.PickleError, EOFError, AttributeError) in the two loaders
CaughtLoadErrors == {"UnpicklingError", "EOFError", "AttributeError"}

Pickled(df) == [kind |-> "df", df |-> df, exc |-> "-"]
Damaged(e) == [kind |-> "bad", df |-> EmptyTable, exc |-> e]
\* what open(cache_path, 'wb') leaves behind when pickle.dump then fails
Truncated == Damaged("EOFError")

(* ------------------------ pure helpers of Caches ----------------------- *)
\* pd.to_datetime(date_str): the parsed day and time of day, or a failure
to_datetime(s) ==
    CASE s = "2023-01-01"       -> [ok |-> TRUE, day |-> "2023-01-01", tod |-> 0]
      [] s = "2023-01-01 09:30" -> [ok |-> TRUE, day |-> "2023-01-01", tod |-> 570]
      [] s = "2023-06-30"       -> [ok |-> TRUE, day |-> "2023-06-30", tod |-> 0]
      [] s = "2023-12-31"       -> [ok |-> TRUE, day |-> "2023-12-31", tod |-> 0]
      [] s = "2023-01-01\n"     -> [ok |-> TRUE, day |-> "2023-01-01", tod |-> 0]
      [] OTHER                  -> [ok |-> FALSE, day |-> s, tod |-> 0]

\* Caches._normalize_date: YYYY-MM-DD of the parsed date, the raw string on failure
_normalize_date(s) ==
    IF to_datetime(s).ok THEN to_datetime(s).day ELSE s

\* Caches._get_cache_path
_get_cache_path(ticker, start, end) ==
    <<ticker, "_", _normalize_date(start), "_", _normalize_date(end), ".pkl">>

\* the path _load_from_cache reads: f"{ticker}{interval}.pkl"
LoadPath(ticker, interval) == <<ticker, interval, ".pkl">>

\* the path _save_to_cache writes: f"{ticker}_{interval}.pkl"
SavePath(ticker, interval) == <<ticker, "_", interval, ".pkl">>

\* the match of a file name against a glob pattern; names and patterns are
\* sequences of pieces of text, and a piece "*" of the pattern stands for any
\* run of pieces of the name, whether the f-string of the pattern put it
\* there or the text of an argument did
RECURSIVE fnmatch(_, _)
fnmatch(pat, name) ==
    IF pat = <<>> THEN name = <<>>
    ELSE IF Head(pat) = "*"
    THEN fnmatch(Tail(pat), name) \/ (name # <<>> /\ fnmatch(pat, Tail(name)))
    ELSE name # <<>> /\ Head(name) = Head(pat) /\ fnmatch(Tail(pat), Tail(name))

\* Path.glob of a pattern prefix + "*" + suffix
GlobMatch(prefix, suffix, name) == fnmatch(prefix \o <<"*">> \o suffix, name)

\* variant: the pattern is built from the start string as given
_find_existing_cache_files_raw_start(d, ticker, start) ==
    {f \in DOMAIN d : GlobMatch(<<ticker, "_", start, "_">>, <<".pkl">>, f)}

\* variant: the pattern leaves the ticker open ("*_{start_norm}_*.pkl")
_find_existing_cache_files_any_ticker(d, ticker, start) ==
    {f \in DOMAIN d : Len(f) = 6 /\ f[2] = "_" /\ f[3] = _normalize_date(start)
                                 /\ f[4] = "_" /\ f[6] = ".pkl"}

\* Caches._find_existing_cache_files
_find_existing_cache_files(d, ticker, start) ==
    {f \in DOMAIN d : GlobMatch(<<ticker, "_", _normalize_date(start), "_">>, <<".pkl">>, f)}

\* df.index = pd.to_datetime(df.index).normalize()
NormalizeIndex(df) == [i \in 1..Len(df) |-> [df[i] EXCEPT !.tod = 0]]

Remove(d, files) == [f \in (DOMAIN d) \ files |-> d[f]]
Store(d, path, content) == [f \in (DOMAIN d) \cup {path} |-> IF f = path THEN content ELSE d[f]]


(* --------------------------- cache store ------------------------------- *)
\* Caches._delete_old_caches; failDel: the files whose unlink() raises
\* (the error is logged and the loop goes on)
_delete_old_caches(d, ticker, start, keep_path, failDel) ==
    Remove(d, {f \in _find_existing_cache_files(d, ticker, start) : f # keep_path} \ failDel)

\* variant: a write that reports success leaves no file behind
WriteFile_lost(d, cache_path, df, wout) ==
    CASE wout = "ok"         -> d
      [] wout = "open_fail"  -> d
      [] wout = "dump_fail"  -> Store(d, cache_path, Truncated)
      [] wout = "dump_raise" -> Store(d, cache_path, Truncated)

\* with open(cache_path, 'wb') as f: pickle.dump(df, f)
\* wout = "ok", "open_fail" (open raises OSError, nothing is touched),
\* "dump_fail" (the file was opened, hence truncated, and dump raised OSError
\* or pickle.PickleError) or "dump_raise" (the same, but dump raised another
\* exception: TypeError for a value that cannot be pickled)
WriteFile(d, cache_path, df, wout) ==
    CASE wout = "ok"         -> Store(d, cache_path, Pickled(df))
      [] wout = "open_fail"  -> d
      [] wout = "dump_fail"  -> Store(d, cache_path, Truncated)
      [] wout = "dump_raise" -> Store(d, cache_path, Truncated)

\* the outcomes of the write of a table the network returned (numeric
\* columns, which pickle can always serialize), and of the write of a table
\* a direct caller of the store hands in
WriteOutcomes == {"ok", "open_fail", "dump_fail"}
PutOutcomes == WriteOutcomes \cup {"dump_raise"}

\* variant: an empty table is not rejected
_save_to_cache_range_accepts_empty(d, df, cache_path, ticker, start, failDel, wout) ==
    LET n == NormalizeIndex(df)
        d1 == _delete_old_caches(d, ticker, start, cache_path, failDel)
    IN [disk |-> WriteFile(d1, cache_path, n, wout), ret |-> (wout = "ok"),
             raised |-> (wout = "dump_raise"), df |-> n]

\* variant: the index is not normalized before the table is written
_save_to_cache_range_raw_index(d, df, cache_path, ticker, start, failDel, wout) ==
    IF df = EmptyTable
    THEN [disk |-> d, ret |-> FALSE, raised |-> FALSE, df |-> df]
    ELSE LET d1 == _delete_old_caches(d, ticker, start, cache_path, failDel)
         IN [disk |-> WriteFile(d1, cache_path, df, wout), ret |-> (wout = "ok"),
             raised |-> (wout = "dump_raise"), df |-> df]

\* Caches._save_to_cache_range; df in the result is the caller's table after
\* the call (its index is normalized in place); raised: the call ended with
\* an exception that except (pickle.PickleError, OSError) does not catch
_save_to_cache_range(d, df, cache_path, ticker, start, failDel, wout) ==
    IF df = EmptyTable
    THEN [disk |-> d, ret |-> FALSE, raised |-> FALSE, df |-> df]
    ELSE LET n == NormalizeIndex(df)
             d1 == _delete_old_caches(d, ticker, start, cache_path, failDel)
         IN [disk |-> WriteFile(d1, cache_path, n, wout), ret |-> (wout = "ok"),
             raised |-> (wout = "dump_raise"), df |-> n]

\* Caches._save_to_cache
_save_to_cache(d, df, ticker, interval, wout) ==
    IF df = EmptyTable
    THEN [disk |-> d, ret |-> FALSE, raised |-> FALSE, df |-> df]
    ELSE LET n == NormalizeIndex(df)
         IN [disk |-> WriteFile(d, SavePath(ticker, interval), n, wout),
             ret |-> (wout = "ok"),
             raised |-> (wout = "dump_raise"), df |-> n]

\* Caches._load_from_cache_range; unlinkOk: cache_path.unlink() does not raise
\* st = "value" (a table is returned), "none" (None) or "raise"
_load_from_cache_range(d, cache_path, unlinkOk) ==
    IF cache_path \notin DOMAIN d
    THEN [disk |-> d, st |-> "none", val |-> EmptyTable]
    ELSE LET c == d[cache_path] IN
         IF c.kind = "bad"
         THEN IF c.exc \in CaughtLoadErrors
              THEN [disk |-> IF unlinkOk THEN Remove(d, {cache_path}) ELSE d,
                    st |-> "none", val |-> EmptyTable]
              ELSE [disk |-> d, st |-> "raise", val |-> EmptyTable]
         ELSE IF c.kind = "df" /\ c.df # EmptyTable
              THEN [disk |-> d, st |-> "value", val |-> c.df]
              ELSE [disk |-> d, st |-> "none", val |-> EmptyTable]

\* Caches._load_from_cache
_load_from_cache(d, ticker, interval, unlinkOk) ==
    LET cache_path == LoadPath(ticker, interval) IN
    IF cache_path \notin DOMAIN d
    THEN [disk |-> d, st |-> "none", val |-> EmptyTable]
    ELSE LET c == d[cache_path] IN
         IF c.kind = "bad"
         THEN IF c.exc \in CaughtLoadErrors
              THEN [disk |-> IF unlinkOk THEN Remove(d, {cache_path}) ELSE d,
                    st |-> "none", val |-> EmptyTable]
              ELSE [disk |-> d, st |-> "raise", val |-> EmptyTable]
         ELSE IF c.kind = "df" /\ c.df # EmptyTable
              THEN [disk |-> d, st |-> "value", val |-> c.df]
              ELSE [disk |-> d, st |-> "none", val |-> EmptyTable]

(* ------------------------------- state --------------------------------- *)
VARIABLES
    disk,         \* the cache directory: file name -> content
    pc,           \* "idle", or the retry loop the caller's fetch is in
    cur,          \* the fetch in progress
    max_retries,  \* YfData.max_retries of the fetcher the fetch runs on
    attempt,      \* loop variable of the retry loop
    calls,        \* yf.download calls made by the fetch in progress
    fails,        \* those of them that raised or returned an empty table
    delays,       \* time.sleep arguments of the fetch in progress
    nops,         \* completed top-level calls
    last,         \* the most recent completed call
    hist,         \* summary of the completed calls
    run,          \* one run of main(): its arguments, position and result
    task,         \* the fetch tasks main() submitted to its worker pool
    keyq          \* one derivation of a cache key: the request and the key

\* the state of the caller that invokes the store and the fetcher directly,
\* the state of a run of main(), the state of a key derivation
callvars == <<pc, cur, max_retries, attempt, calls, fails, delays, nops, last, hist>>
mainvars == <<run, task>>
vars == <<disk, pc, cur, max_retries, attempt, calls, fails, delays, nops, last, hist,
          run, task, keyq>>

\* a call: op and arguments (ticker, a = start or interval, b = end), the file
\* it addresses, arg = the table put (for a fetch: the table the network
\* returned), st = how it returned ("value", "none", "true", "false", "raise"),
\* val = the table returned (for a put: the caller's table after the call),
\* hit = served from the cache, wrote = outcome of the file write,
\* swept = the files the put deleted, kept = those it failed to delete,
\* max = max_retries of the fetcher, snap = the directory right after the
\* lookup of a fetch that made no put
NoCall == [op |-> "none", ticker |-> "-", a |-> "-", b |-> "-", path |-> <<>>,
           arg |-> EmptyTable, st |-> "none", val |-> EmptyTable, calls |-> 0,
           fails |-> 0, delays |-> <<>>, hit |-> FALSE, wrote |-> "-", kept |-> {},
           swept |-> {}, max |-> 0, snap |-> <<>>]

\* hist.only: every completed call was a range-mode put that returned True;
\* hist.clean: moreover none of them failed to delete a sibling;
\* hist.recent: <<ticker, normalized start>> -> path and table of the most
\* recent of these puts
NoHist == [only |-> FALSE, clean |-> FALSE, recent |-> <<>>]
HistAfter(c) ==
    IF hist.only /\ c.op = "save_range" /\ c.st = "true"
    THEN [only |-> TRUE, clean |-> hist.clean /\ c.kept = {},
          recent |-> Store(hist.recent, <<c.ticker, _normalize_date(c.a)>>,
                           [path |-> c.path, df |-> c.val])]
    ELSE NoHist

\* no run of main() is under way; no key is being derived
NoRun == [pc |-> "none"]
NoKey == [ticker |-> "-", params |-> <<>>, key |-> <<>>]

\* the pre-existing cache directories a run may start from: an empty one, or
\* one holding a file under the name the interval-mode loader reads
LegacyFile == LoadPath("AAPL", "1d")
LegacyTable == <<Row(1)>>
InitialDisks == {<<>>, Store(<<>>, LegacyFile, Pickled(LegacyTable))}

Init ==
    /\ disk \in InitialDisks
    /\ pc = "idle"
    /\ cur = NoCall
    /\ max_retries = 0
    /\ attempt = 0
    /\ calls = 0
    /\ fails = 0
    /\ delays = <<>>
    /\ nops = 0
    /\ last = NoCall
    /\ hist = [only |-> TRUE, clean |-> TRUE, recent |-> <<>>]
    /\ run = NoRun
    /\ task = <<>>
    /\ keyq = NoKey

\* a top-level call completes: it becomes the most recent one
Complete(c) ==
    /\ last' = c
    /\ hist' = HistAfter(c)
    /\ nops' = nops + 1
    /\ pc' = "idle"
    /\ cur' = NoCall
    /\ max_retries' = 0
    /\ attempt' = 0
    /\ calls' = 0
    /\ fails' = 0
    /\ delays' = <<>>
    /\ UNCHANGED <<run, task, keyq>>

CanCall == pc = "idle" /\ nops < MaxOps

(* ----------------------- direct cache store calls ---------------------- *)
\* a caller invokes Caches._save_to_cache_range on the path of (ticker, start, end)
CallSaveRange(df, ticker, start, end, failDel, wout) ==
    /\ CanCall
    /\ LET path == _get_cache_path(ticker, start, end)
           r == _save_to_cache_range(disk, df, path, ticker, start, failDel, wout)
       IN /\ disk' = r.disk
          /\ Complete([NoCall EXCEPT !.op = "save_range", !.ticker = ticker, !.a = start,
                          !.b = end, !.path = path, !.arg = df,
                          !.st = IF r.raised THEN "raise" ELSE IF r.ret THEN "true" ELSE "false",
                          !.val = r.df,
                          !.wrote = IF df = EmptyTable THEN "-" ELSE wout,
                          !.kept = IF df = EmptyTable THEN {} ELSE failDel,
                          !.swept = (DOMAIN disk) \ (DOMAIN r.disk)])

\* a caller invokes Caches._load_from_cache_range on the path of (ticker, start, end)
CallLoadRange(ticker, start, end, unlinkOk) ==
    /\ CanCall
    /\ LET path == _get_cache_path(ticker, start, end)
           r == _load_from_cache_range(disk, path, unlinkOk)
       IN /\ disk' = r.disk
          /\ Complete([NoCall EXCEPT !.op = "load_range", !.ticker = ticker, !.a = start,
                          !.b = end, !.path = path, !.st = r.st, !.val = r.val,
                          !.hit = (r.st = "value")])

\* a caller invokes Caches._save_to_cache
CallSave(df, ticker, interval, wout) ==
    /\ CanCall
    /\ LET r == _save_to_cache(disk, df, ticker, interval, wout)
       IN /\ disk' = r.disk
          /\ Complete([NoCall EXCEPT !.op = "save", !.ticker = ticker, !.a = interval,
                          !.path = SavePath(ticker, interval), !.arg = df,
                          !.st = IF r.raised THEN "raise" ELSE IF r.ret THEN "true" ELSE "false",
                          !.val = r.df,
                          !.wrote = IF df = EmptyTable THEN "-" ELSE wout])

\* a caller invokes Caches._load_from_cache
CallLoad(ticker, interval, unlinkOk) ==
    /\ CanCall
    /\ LET r == _load_from_cache(disk, ticker, interval, unlinkOk)
       IN /\ disk' = r.disk
          /\ Complete([NoCall EXCEPT !.op = "load", !.ticker = ticker, !.a = interval,
                          !.path = LoadPath(ticker, interval), !.st = r.st, !.val = r.val,
                          !.hit = (r.st = "value")])

(* --------------------------- fetch coordinator ------------------------- *)
\* what yf.download does on one call: raises, returns an empty table, or
\* returns a non-empty one (the table with an intraday stamp in its index)
NetOutcomes == {"raise", "empty", "data"}
NetTables == {<<Row(1), Row(2)>>}

\* variant: the lookup result is ignored and the fetch always goes to the network
AfterLookup_always_fetch(c0, r, n, loop) ==
    IF r.st = "raise"
    THEN Complete([c0 EXCEPT !.st = "raise"])
    ELSE /\ pc' = loop
         /\ cur' = [c0 EXCEPT !.snap = r.disk]
         /\ max_retries' = n
         /\ attempt' = 0
         /\ calls' = 0
         /\ fails' = 0
         /\ delays' = <<>>
         /\ UNCHANGED <<nops, last, hist, run, task, keyq>>

\* the cache lookup of a fetch (fetcher.py 77-79 and 122-125) ends the call
\* on a hit or on an error the loader lets through; otherwise the fetch goes
\* into  for attempt in range(self.max_retries), which ends at once when
\* max_retries is 0 (the function falls off its end and returns None)
AfterLookup(c0, r, n, loop) ==
    IF r.st = "value"
    THEN Complete([c0 EXCEPT !.st = "value", !.val = r.val, !.hit = TRUE])
    ELSE IF r.st = "raise"
    THEN Complete([c0 EXCEPT !.st = "raise"])
    ELSE IF n = 0
    THEN Complete([c0 EXCEPT !.st = "none"])
    ELSE /\ pc' = loop
         /\ cur' = [c0 EXCEPT !.snap = r.disk]
         /\ max_retries' = n
         /\ attempt' = 0
         /\ calls' = 0
         /\ fails' = 0
         /\ delays' = <<>>
         /\ UNCHANGED <<nops, last, hist, run, task, keyq>>

\* YfData(max_retries = n).get_data_for_range(ticker, start, end) up to the loop
FetchRangeBegin(n, ticker, start, end, unlinkOk) ==
    /\ CanCall
    /\ LET path == _get_cache_path(ticker, start, end)
           r == _load_from_cache_range(disk, path, unlinkOk)
           c0 == [NoCall EXCEPT !.op = "fetch_range", !.ticker = ticker, !.a = start,
                      !.b = end, !.path = path, !.max = n]
       IN /\ disk' = r.disk
          /\ AfterLookup(c0, r, n, "range_retry")

\* YfData(max_retries = n).get_yf_for_timeframe(ticker, interval) up to the loop
FetchTfBegin(n, ticker, interval, unlinkOk) ==
    /\ CanCall
    /\ LET r == _load_from_cache(disk, ticker, interval, unlinkOk)
           c0 == [NoCall EXCEPT !.op = "fetch_tf", !.ticker = ticker, !.a = interval,
                      !.path = LoadPath(ticker, interval), !.max = n]
       IN /\ disk' = r.disk
          /\ AfterLookup(c0, r, n, "tf_retry")

\* variant: the delay grows linearly with the attempt
Backoff_linear(n) == base_delay * (n + 1)

\* time.sleep(self.base_delay * (2 ** attempt))
Backoff(n) == base_delay * (2 ^ n)

\* variant: the loop makes one pass too many
LastAttempt_off_by_one == attempt = max_retries

\* is this the last pass of  for attempt in range(self.max_retries)
LastAttempt == attempt = max_retries - 1

\* one pass of the loop ended without a table: the exception (the one
\* yf.download raised, or the ValueError of the last empty result) is logged;
\* the last pass returns None, any other goes on with the next attempt
FailedAttempt ==
    IF LastAttempt
    THEN Complete([cur EXCEPT !.calls = calls + 1, !.fails = fails + 1,
                              !.delays = Append(delays, Backoff(attempt)), !.st = "none"])
    ELSE /\ attempt' = attempt + 1
         /\ calls' = calls + 1
         /\ fails' = fails + 1
         /\ delays' = Append(delays, Backoff(attempt))
         /\ UNCHANGED <<pc, cur, max_retries, nops, last, hist, run, task, keyq>>

\* variant: the table is returned only when the put reported success
GotData_only_if_cached(df, s, failDel, wout) ==
    Complete([cur EXCEPT !.calls = calls + 1, !.fails = fails,
                         !.delays = Append(delays, Backoff(attempt)),
                         !.arg = df, !.wrote = wout, !.kept = failDel,
                         !.swept = (DOMAIN disk) \ (DOMAIN s.disk), !.snap = <<>>,
                         !.st = IF s.ret THEN "value" ELSE "none",
                         !.val = IF s.ret THEN s.df ELSE EmptyTable])

\* one pass of the loop got the non-empty table df: it has been put (s is
\* what the put did) and is returned
GotData(df, s, failDel, wout) ==
    Complete([cur EXCEPT !.calls = calls + 1, !.fails = fails,
                         !.delays = Append(delays, Backoff(attempt)),
                         !.arg = df, !.wrote = wout, !.kept = failDel,
                         !.swept = (DOMAIN disk) \ (DOMAIN s.disk), !.snap = <<>>,
                         !.st = "value", !.val = s.df])

\* one pass of the retry loop of get_data_for_range
FetchRangeAttempt(out, df, failDel, wout) ==
    /\ pc = "range_retry"
    /\ IF out = "data"
       THEN LET s == _save_to_cache_range(disk, df, cur.path, cur.ticker, cur.a, failDel, wout)
            IN /\ disk' = s.disk
               /\ GotData(df, s, failDel, wout)
       ELSE /\ disk' = disk
            /\ FailedAttempt

\* one pass of the retry loop of get_yf_for_timeframe
FetchTfAttempt(out, df, wout) ==
    /\ pc = "tf_retry"
    /\ IF out = "data"
       THEN LET s == _save_to_cache(disk, df, cur.ticker, cur.a, wout)
            IN /\ disk' = s.disk
               /\ GotData(df, s, {}, wout)
       ELSE /\ disk' = disk
            /\ FailedAttempt

(* ------------------------------ environment ---------------------------- *)
\* the bytes of an existing cache file get damaged outside the program;
\* pickle.load of the file will raise e
CorruptFile(path, e) ==
    /\ CanCall
    /\ path \in DOMAIN disk
    /\ disk' = Store(disk, path, Damaged(e))
    /\ Complete([NoCall EXCEPT !.op = "corrupt", !.path = path])

(* --------------------------- specification ----------------------------- *)
\* the inputs that make a difference to a step
WriteChoices(df) == IF df = EmptyTable THEN {"ok"} ELSE WriteOutcomes
PutChoices(df) == IF df = EmptyTable THEN {"ok"} ELSE PutOutcomes
KeepChoices(df, t, s) ==
    IF df = EmptyTable THEN {{}} ELSE SUBSET _find_existing_cache_files(disk, t, s)
UnlinkChoices(path) ==
    IF path \in DOMAIN disk /\ disk[path].kind = "bad" /\ disk[path].exc \in CaughtLoadErrors
    THEN BOOLEAN ELSE {TRUE}
\* the max_retries the fetchers are constructed with
RetryChoices == {0, MaxRetries}

Next ==
    \/ \E df \in Tables, r \in RangeRequests :
          \E w \in PutChoices(df), fd \in KeepChoices(df, r[1], r[2]) :
              CallSaveRange(df, r[1], r[2], r[3], fd, w)
    \/ \E r \in RangeRequests :
          \E u \in UnlinkChoices(_get_cache_path(r[1], r[2], r[3])) :
              CallLoadRange(r[1], r[2], r[3], u)
    \/ \E df \in Tables, t \in Tickers, i \in Intervals :
          \E w \in PutChoices(df) :
              CallSave(df, t, i, w)
    \/ \E t \in Tickers, i \in Intervals :
          \E u \in UnlinkChoices(LoadPath(t, i)) :
              CallLoad(t, i, u)
    \/ \E n \in RetryChoices, r \in RangeRequests :
          \E u \in UnlinkChoices(_get_cache_path(r[1], r[2], r[3])) :
              FetchRangeBegin(n, r[1], r[2], r[3], u)
    \/ \E df \in NetTables :
          \E w \in WriteChoices(df), fd \in KeepChoices(df, cur.ticker, cur.a) :
              FetchRangeAttempt("data", df, fd, w)
    \/ \E o \in NetOutcomes \ {"data"} :
          FetchRangeAttempt(o, EmptyTable, {}, "ok")
    \/ \E n \in RetryChoices, t \in Tickers, i \in Intervals :
          \E u \in UnlinkChoices(LoadPath(t, i)) :
              FetchTfBegin(n, t, i, u)
    \/ \E df \in NetTables :
          \E w \in WriteChoices(df) :
              FetchTfAttempt("data", df, w)
    \/ \E o \in NetOutcomes \ {"data"} :
          FetchTfAttempt(o, EmptyTable, "ok")
    \/ \E p \in DOMAIN disk, e \in LoadErrors :
          CorruptFile(p, e)

Spec == Init /\ [][Next]_vars

TypeOK ==
    /\ pc \in {"idle", "range_retry", "tf_retry"}
    /\ max_retries \in 0..MaxRetries
    /\ nops \in 0..MaxOps
    /\ attempt \in 0..MaxRetries
    /\ calls = attempt
    /\ Len(delays) = calls

(* ------------------------- main(): arguments --------------------------- *)
MaxThreads == 2            \* largest --threads given to main()
default_max_retries == 5   \* YfData.__init__ default max_retries

\* an option that was not given (argparse default None)
None == "None"

\* the characters of a date string, by class: "d" a digit, "x" a letter
Chars(s) ==
    CASE s = "2023-01-01"   -> <<"d", "d", "d", "d", "-", "d", "d", "-", "d", "d">>
      [] s = "2023-06-30"   -> <<"d", "d", "d", "d", "-", "d", "d", "-", "d", "d">>
      [] s = "2023-01-01\n" -> <<"d", "d", "d", "d", "-", "d", "d", "-", "d", "d", "\n">>
      [] s = "01/02/2023"   -> <<"d", "d", "/", "d", "d", "/", "d", "d", "d", "d">>
      [] s = "not-a-date"   -> <<"x", "x", "x", "-", "x", "-", "x", "x", "x", "x">>
      [] OTHER              -> <<>>

\* validate_date_format: re.match(r'^\d{4}-\d{2}-\d{2}$', date_str); in a
\* Python pattern $ matches at the end of the string and also just before a
\* newline that ends the string
validate_date_format(date_str) ==
    LET c == Chars(date_str) IN
    /\ Len(c) >= 10
    /\ SubSeq(c, 1, 10) = <<"d", "d", "d", "d", "-", "d", "d", "-", "d", "d">>
    /\ \/ Len(c) = 10
       \/ Len(c) = 11 /\ c[11] = "\n"

valid_intervals ==
    {"1m", "2m", "5m", "15m", "30m", "60m", "90m", "1h", "1d", "5d", "1wk", "1mo", "3mo"}
validate_interval(interval) == interval \in valid_intervals

\* the command lines: batches of one or two tickers (also the same ticker
\* twice) in interval mode and in range mode on every pool size, and single
\* tickers with every kind of date, interval and market option
BatchTickers == {<<"AAPL">>, <<"AAPL", "MSFT">>, <<"AAPL", "AAPL">>}
DateOptions ==
    {<<None, None>>, <<"2023-01-01", "2023-06-30">>, <<"not-a-date", "2023-06-30">>,
     <<"2023-01-01", "01/02/2023">>, <<"2023-01-01\n", "2023-06-30">>}
MainArgs ==
    {[tickers |-> tk, start |-> d[1], end |-> d[2], interval |-> "1d", threads |-> th,
      market |-> None] :
        tk \in BatchTickers, d \in {<<None, None>>, <<"2023-01-01", "2023-06-30">>},
        th \in 1..MaxThreads}
    \cup
    {[tickers |-> <<"AAPL">>, start |-> d[1], end |-> d[2], interval |-> i, threads |-> 1,
      market |-> m] :
        d \in DateOptions, i \in {"1d", "2d"}, m \in {None, "stocks"}}

\* main() 66-78: the first validation that fails, or "ok"
Validate(a) ==
    IF a.start # None /\ ~validate_date_format(a.start) THEN "bad_start"
    ELSE IF a.end # None /\ ~validate_date_format(a.end) THEN "bad_end"
    ELSE IF ~validate_interval(a.interval) THEN "bad_interval"
    ELSE "ok"

\* main() 89-94: fetch_kwargs holds start and end (range mode) when both are
\* given, the interval otherwise (a run with a start and no end is not among
\* the command lines above)
FetchMode(a) == IF a.start # None /\ a.end # None THEN "range" ELSE "tf"

\* main() 109
max_workers(a) == IF a.threads >= 1 THEN a.threads ELSE 1

\* variant: main() returns 0 whatever the fetches gave
ExitCode_always_zero(any_success) == "0"

\* main() 148-158: the value main() returns after the pool has shut down
\* (return values are written as text: "0", "1", and None for a bare return)
ExitCode(any_success) == IF any_success THEN "0" ELSE "1"

(* --------------------- main(): the pool of fetch tasks ----------------- *)
\* the table the network returns for a ticker
TickerTable(t) == IF t = "AAPL" THEN <<Row(1), Row(2)>> ELSE <<Row(3)>>

\* fetcher.get_data(ticker, **fetch_kwargs) as a task of the pool that has not
\* started: the fetch of the request in its addressing mode, range mode by
\* get_data_for_range and interval mode by get_yf_for_timeframe.
\* path is the file the lookup reads, wpath the file the put writes;
\* pc: "queued", "read" (before open/pickle.load in the loader), "unlink"
\* (before cache_path.unlink() in the loader), "loop" (before a pass of the
\* retry loop), "open" (in the put, before open(cache_path, 'wb')), "dump"
\* (before pickle.dump), "done";
\* fd: the file the put has open: "open", or "orphan" once its name was unlinked;
\* saw: what the lookup found; st, val: how the fetch returned;
\* latest: the put returned True and no step of another put or sweep has
\* touched wpath since
get_data(ticker, a) ==
    [ticker |-> ticker, mode |-> FetchMode(a), start |-> a.start,
     path |-> IF FetchMode(a) = "range" THEN _get_cache_path(ticker, a.start, a.end)
              ELSE LoadPath(ticker, a.interval),
     wpath |-> IF FetchMode(a) = "range" THEN _get_cache_path(ticker, a.start, a.end)
               ELSE SavePath(ticker, a.interval),
     pc |-> "queued", attempt |-> 0, calls |-> 0, fails |-> 0, delays |-> <<>>,
     df |-> EmptyTable, fd |-> "none", saw |-> "-", put |-> "-", st |-> "-",
     val |-> EmptyTable, latest |-> FALSE]

Running(i) == task[i].pc \notin {"queued", "done"}
PoolRuns == run.pc \in {"collect", "shutdown"}

\* the names in files are unlinked (unl) and a put or sweep by task i touches
\* the names in touched: a put that has such a name open keeps writing to a
\* file without a name, and an earlier put of it is no longer the latest
Touch(t, i, unl, touched) ==
    [j \in DOMAIN t |->
        IF j = i THEN t[j]
        ELSE [t[j] EXCEPT !.fd = IF @ = "open" /\ t[j].wpath \in unl THEN "orphan" ELSE @,
                          !.latest = @ /\ t[j].wpath \notin touched]]

\* a worker of the pool takes the next task of the queue and runs it up to
\* the first access to the directory: cache_path.exists() in the loader
TaskStart(i) ==
    /\ PoolRuns
    /\ task[i].pc = "queued"
    /\ \A j \in DOMAIN task : j < i => task[j].pc # "queued"
    /\ Cardinality({j \in DOMAIN task : Running(j)}) < max_workers(run.args)
    /\ task' = [task EXCEPT ![i].pc = IF task[i].path \in DOMAIN disk THEN "read" ELSE "loop",
                            ![i].saw = IF task[i].path \in DOMAIN disk THEN "-" ELSE "absent"]
    /\ UNCHANGED <<disk, run>>

\* the loader opens the file and unpickles it: a valid non-empty table is
\* returned by the fetch; on a caught error the loader goes on to unlink the
\* file; a file that is gone by now, or an error that is not caught, ends the
\* fetch with that exception (the lookup is outside the try of the fetch)
TaskRead(i) ==
    /\ PoolRuns
    /\ task[i].pc = "read"
    /\ LET p == task[i].path IN
       task' = IF p \notin DOMAIN disk
               THEN [task EXCEPT ![i].pc = "done", ![i].st = "raise", ![i].saw = "gone"]
               ELSE IF disk[p].kind = "bad"
               THEN IF disk[p].exc \in CaughtLoadErrors
                    THEN [task EXCEPT ![i].pc = "unlink", ![i].saw = "partial"]
                    ELSE [task EXCEPT ![i].pc = "done", ![i].st = "raise", ![i].saw = "partial"]
               ELSE IF disk[p].df # EmptyTable
               THEN [task EXCEPT ![i].pc = "done", ![i].st = "value", ![i].val = disk[p].df,
                                 ![i].saw = "valid"]
               ELSE [task EXCEPT ![i].pc = "loop", ![i].saw = "empty"]
    /\ UNCHANGED <<disk, run>>

\* cache_path.unlink() in the loader (an OSError, as when the file is gone,
\* is passed over); the loader returns None and the fetch enters its loop
TaskUnlink(i) ==
    /\ PoolRuns
    /\ task[i].pc = "unlink"
    /\ disk' = Remove(disk, {task[i].path})
    /\ task' = [Touch(task, i, {task[i].path} \cap DOMAIN disk, {task[i].path} \cap DOMAIN disk)
                   EXCEPT ![i].pc = "loop"]
    /\ UNCHANGED run

\* one pass of the retry loop: the sleep and the download; a non-empty table
\* is handed to the put, which normalizes its index and (range mode) sweeps
\* the siblings; a failed pass is the last one or goes on with the next
TaskAttempt(i, out) ==
    /\ PoolRuns
    /\ task[i].pc = "loop"
    /\ LET t == task[i]
           slept == [task EXCEPT ![i].calls = @ + 1,
                                 ![i].delays = Append(@, Backoff(t.attempt))]
           d1 == IF t.mode = "range"
                 THEN _delete_old_caches(disk, t.ticker, t.start, t.wpath, {})
                 ELSE disk
           swept == (DOMAIN disk) \ (DOMAIN d1)
       IN IF out = "data"
          THEN /\ disk' = d1
               /\ task' = [Touch(slept, i, swept, swept \cup {t.wpath})
                              EXCEPT ![i].df = NormalizeIndex(TickerTable(t.ticker)),
                                     ![i].pc = "open"]
          ELSE /\ disk' = disk
               /\ task' = IF t.attempt = default_max_retries - 1
                          THEN [slept EXCEPT ![i].fails = @ + 1, ![i].pc = "done",
                                             ![i].st = "none"]
                          ELSE [slept EXCEPT ![i].fails = @ + 1, ![i].attempt = @ + 1]
    /\ UNCHANGED run

\* open(cache_path, 'wb') in the put: the file exists and is empty
TaskOpen(i) ==
    /\ PoolRuns
    /\ task[i].pc = "open"
    /\ disk' = Store(disk, task[i].wpath, Truncated)
    /\ task' = [Touch(task, i, {}, {task[i].wpath}) EXCEPT ![i].pc = "dump", ![i].fd = "open"]
    /\ UNCHANGED run

\* pickle.dump and the close of the file: the bytes go to the file that was
\* opened; the put returns True and the fetch returns the table
TaskDump(i) ==
    /\ PoolRuns
    /\ task[i].pc = "dump"
    /\ disk' = IF task[i].fd = "open"
               THEN Store(disk, task[i].wpath, Pickled(task[i].df))
               ELSE disk
    /\ task' = [Touch(task, i, {}, {task[i].wpath})
                   EXCEPT ![i].pc = "done", ![i].fd = "none", ![i].put = "true",
                          ![i].latest = TRUE, ![i].st = "value", ![i].val = task[i].df]
    /\ UNCHANGED run

(* ----------------------------- main(): steps --------------------------- *)
\* main() up to the pool: the market listing returns without a value; a
\* failed validation returns 1; otherwise the fetcher is constructed and one
\* task per ticker of the command line is submitted to the pool
MainBegin ==
    /\ run.pc = "start"
    /\ IF run.args.market # None
       THEN /\ run' = [run EXCEPT !.pc = "done", !.ret = None]
            /\ task' = task
       ELSE IF Validate(run.args) # "ok"
       THEN /\ run' = [run EXCEPT !.pc = "done", !.ret = "1"]
            /\ task' = task
       ELSE /\ run' = [run EXCEPT !.pc = "collect", !.fetcher = TRUE]
            /\ task' = [i \in 1..Len(run.args.tickers) |->
                           get_data(run.args.tickers[i], run.args)]
    /\ UNCHANGED disk

\* for future in as_completed(...): the result of a finished task is taken;
\* a non-empty table sets any_success, None or an exception is logged
MainCollect(i) ==
    /\ run.pc = "collect"
    /\ task[i].pc = "done"
    /\ i \notin run.collected
    /\ run' = [run EXCEPT !.collected = @ \cup {i},
                          !.any_success = @ \/ (task[i].st = "value" /\ task[i].val # EmptyTable)]
    /\ UNCHANGED <<disk, task>>

\* every future has been taken: the with block ends and main() returns
MainReturn ==
    /\ run.pc = "collect"
    /\ run.collected = DOMAIN task
    /\ run' = [run EXCEPT !.pc = "done", !.ret = ExitCode(run.any_success)]
    /\ UNCHANGED <<disk, task>>

\* KeyboardInterrupt while main() waits in as_completed: the exception leaves
\* the with block, whose exit is executor.shutdown(wait=True)
Interrupt ==
    /\ run.pc = "collect"
    /\ run.collected # DOMAIN task
    /\ run' = [run EXCEPT !.pc = "shutdown", !.interrupted = TRUE]
    /\ UNCHANGED <<disk, task>>

\* the shutdown has waited for every task, those still queued included;
\* except KeyboardInterrupt: return 1
MainInterrupted ==
    /\ run.pc = "shutdown"
    /\ \A i \in DOMAIN task : task[i].pc = "done"
    /\ run' = [run EXCEPT !.pc = "done", !.ret = "1"]
    /\ UNCHANGED <<disk, task>>

\* the cache directory a run of main() finds: empty, or holding the entry of
\* an earlier run for the same ticker and start with another end
StaleFile == _get_cache_path("AAPL", "2023-01-01", "2023-12-31")
MainDisks == {<<>>, Store(<<>>, StaleFile, Pickled(<<Row(1)>>))}

MainInit ==
    /\ disk \in MainDisks
    /\ run \in {[pc |-> "start", args |-> a, fetcher |-> FALSE, any_success |-> FALSE,
                 collected |-> {}, interrupted |-> FALSE, ret |-> "-"] : a \in MainArgs}
    /\ task = <<>>
    /\ keyq = NoKey
    /\ pc = "idle"
    /\ cur = NoCall
    /\ max_retries = 0
    /\ attempt = 0
    /\ calls = 0
    /\ fails = 0
    /\ delays = <<>>
    /\ nops = 0
    /\ last = NoCall
    /\ hist = NoHist

MainNext ==
    \/ MainBegin /\ UNCHANGED <<callvars, keyq>>
    \/ \E i \in DOMAIN task : TaskStart(i) /\ UNCHANGED <<callvars, keyq>>
    \/ \E i \in DOMAIN task : TaskRead(i) /\ UNCHANGED <<callvars, keyq>>
    \/ \E i \in DOMAIN task : TaskUnlink(i) /\ UNCHANGED <<callvars, keyq>>
    \/ \E i \in DOMAIN task : TaskAttempt(i, "data") /\ UNCHANGED <<callvars, keyq>>
    \/ \E i \in DOMAIN task, o \in NetOutcomes \ {"data"} :
          TaskAttempt(i, o) /\ UNCHANGED <<callvars, keyq>>
    \/ \E i \in DOMAIN task : TaskOpen(i) /\ UNCHANGED <<callvars, keyq>>
    \/ \E i \in DOMAIN task : TaskDump(i) /\ UNCHANGED <<callvars, keyq>>
    \/ \E i \in DOMAIN task : MainCollect(i) /\ UNCHANGED <<callvars, keyq>>
    \/ MainReturn /\ UNCHANGED <<callvars, keyq>>
    \/ Interrupt /\ UNCHANGED <<callvars, keyq>>
    \/ MainInterrupted /\ UNCHANGED <<callvars, keyq>>

MainSpec == MainInit /\ [][MainNext]_vars

MainTypeOK ==
    /\ run.pc \in {"start", "collect", "shutdown", "done"}
    /\ \A i \in DOMAIN task :
          /\ task[i].pc \in {"queued", "read", "unlink", "loop", "open", "dump", "done"}
          /\ task[i].attempt \in 0..(default_max_retries - 1)
          /\ task[i].calls \in 0..default_max_retries
          /\ Len(task[i].delays) = task[i].calls
    /\ Cardinality({i \in DOMAIN task : Running(i)}) <= max_workers(run.args)

(* ------------------------- cache key derivation ------------------------ *)
MaxParams == 3       \* most parameters of one request

\* a parameter mapping in its insertion order: a sequence of <<name, value>>
\* with pairwise distinct names
ParamNames == {"start", "end", "interval"}
ParamValues(n) ==
    CASE n = "start"    -> {"2023-01-01", "2023-01-01 09:30"}
      [] n = "end"      -> {"2023-06-30"}
      [] n = "interval" -> {"1d", "1h"}
ParamPairs == {<<n, v>> : n \in ParamNames, v \in {"2023-01-01", "2023-01-01 09:30",
                                                   "2023-06-30", "1d", "1h"}}
ParamLists ==
    {p \in UNION {[1..k -> {q \in ParamPairs : q[2] \in ParamValues(q[1])}] : k \in 0..MaxParams} :
        \A i, j \in DOMAIN p : p[i][1] = p[j][1] => i = j}

\* the place of a parameter name in the lexicographic order of the names
NameRank(n) ==
    CASE n = "end" -> 1
      [] n = "interval" -> 2
      [] n = "start" -> 3

\* a date-like value is normalized to YYYY-MM-DD before it goes into the key
KeyValue(n, v) == IF n \in {"start", "end"} THEN _normalize_date(v) ELSE v

\* "name=value" of the pairs, each led by the separator
RECURSIVE JoinPairs(_)
JoinPairs(p) ==
    IF p = <<>> THEN <<>>
    ELSE <<"_", p[1][1], "=", KeyValue(p[1][1], p[1][2])>> \o JoinPairs(Tail(p))

\* variant: the pairs are taken in insertion order
_get_cache_key_unsorted(ticker, params) ==
    <<"ticker=", ticker>> \o JoinPairs(params)

\* Caches._get_cache_key(ticker, params): the ticker, then the name=value
\* pairs sorted by name and joined by the separator
_get_cache_key(ticker, params) ==
    <<"ticker=", ticker>>
        \o JoinPairs(SortSeq(params, LAMBDA a, b : NameRank(a[1]) < NameRank(b[1])))

\* a key is derived for a request
KeyInit ==
    /\ keyq \in {[ticker |-> t, params |-> p, key |-> <<>>] : t \in Tickers, p \in ParamLists}
    /\ disk = <<>>
    /\ run = NoRun
    /\ task = <<>>
    /\ pc = "idle"
    /\ cur = NoCall
    /\ max_retries = 0
    /\ attempt = 0
    /\ calls = 0
    /\ fails = 0
    /\ delays = <<>>
    /\ nops = 0
    /\ last = NoCall
    /\ hist = NoHist

DeriveKey ==
    /\ keyq.key = <<>>
    /\ keyq' = [keyq EXCEPT !.key = _get_cache_key(keyq.ticker, keyq.params)]
    /\ UNCHANGED <<disk, callvars, mainvars>>

KeyNext == DeriveKey

KeySpec == KeyInit /\ [][KeyNext]_vars

(* --------------- range-mode puts of fetches that run together ---------- *)
MaxPuts == 2         \* most puts in flight at once

\* the requests whose fetches put: two of one ticker and one start day with
\* different ends, one whose start is not a date and holds the wildcard of
\* glob (to_datetime fails on it and _normalize_date keeps it as it is), and
\* one of another ticker
PutRequests ==
    {<<"AAPL", "2023-01-01", "2023-06-30">>, <<"AAPL", "2023-01-01 09:30", "2023-12-31">>,
     <<"AAPL", "*", "2023-06-30">>, <<"MSFT", "2023-01-01", "2023-06-30">>}

\* the directory the puts find: empty, or holding an entry of AAPL for the
\* start 2023-01-01, one of AAPL for another start, one of another ticker
\* and an interval-mode entry of AAPL
OtherStartFile == _get_cache_path("AAPL", "2023-06-30", "2023-12-31")
OtherTickerFile == _get_cache_path("MSFT", "2023-01-01", "2023-12-31")
IntervalFile == SavePath("AAPL", "1d")
PutDisks ==
    {<<>>, [f \in {_get_cache_path("AAPL", "2023-01-01", "2023-12-31"), OtherStartFile,
                   OtherTickerFile, IntervalFile} |-> Pickled(<<Row(1)>>)]}

\* self.cached_data._save_to_cache_range(df, cache_path, ticker, start) as
\* get_data_for_range calls it, before its first statement;
\* pc: "begin", "open" (before open(cache_path, 'wb')), "dump" (before
\* pickle.dump), "done"; fd, put, latest as in the tasks of the pool
RangePut(r, df) ==
    [ticker |-> r[1], start |-> r[2], wpath |-> _get_cache_path(r[1], r[2], r[3]),
     df |-> df, pc |-> "begin", fd |-> "none", put |-> "-", latest |-> FALSE]

\* the put up to its write: an empty table is turned down; otherwise the
\* index is normalized and the siblings are swept
PutBegin(i) ==
    /\ task[i].pc = "begin"
    /\ LET t == task[i]
           d1 == _delete_old_caches(disk, t.ticker, t.start, t.wpath, {})
           swept == (DOMAIN disk) \ (DOMAIN d1)
       IN IF t.df = EmptyTable
          THEN /\ disk' = disk
               /\ task' = [task EXCEPT ![i].pc = "done", ![i].put = "false"]
          ELSE /\ disk' = d1
               /\ task' = [Touch(task, i, swept, swept)
                              EXCEPT ![i].df = NormalizeIndex(t.df), ![i].pc = "open"]
    /\ UNCHANGED <<callvars, run, keyq>>

\* open(cache_path, 'wb'): the file exists and is empty, or OSError is
\* caught and the put returns False
PutOpen(i, out) ==
    /\ task[i].pc = "open"
    /\ IF out = "ok"
       THEN /\ disk' = Store(disk, task[i].wpath, Truncated)
            /\ task' = [Touch(task, i, {}, {task[i].wpath})
                           EXCEPT ![i].pc = "dump", ![i].fd = "open"]
       ELSE /\ disk' = disk
            /\ task' = [task EXCEPT ![i].pc = "done", ![i].put = "false"]
    /\ UNCHANGED <<callvars, run, keyq>>

\* pickle.dump and the close of the file: the bytes go to the file that was
\* opened and the put returns True, or the error is caught, the file stays
\* as open left it and the put returns False
PutDump(i, out) ==
    /\ task[i].pc = "dump"
    /\ IF out = "ok"
       THEN /\ disk' = IF task[i].fd = "open"
                       THEN Store(disk, task[i].wpath, Pickled(task[i].df))
                       ELSE disk
            /\ task' = [Touch(task, i, {}, {task[i].wpath})
                           EXCEPT ![i].pc = "done", ![i].fd = "none", ![i].put = "true",
                                  ![i].latest = TRUE]
       ELSE /\ disk' = disk
            /\ task' = [task EXCEPT ![i].pc = "done", ![i].fd = "none", ![i].put = "false"]
    /\ UNCHANGED <<callvars, run, keyq>>

PutInit ==
    /\ disk \in PutDisks
    /\ task \in UNION {[1..n -> {RangePut(r, df) : r \in PutRequests,
                                                   df \in {EmptyTable, <<Row(1), Row(2)>>}}] :
                          n \in 1..MaxPuts}
    /\ run = NoRun
    /\ keyq = NoKey
    /\ pc = "idle"
    /\ cur = NoCall
    /\ max_retries = 0
    /\ attempt = 0
    /\ calls = 0
    /\ fails = 0
    /\ delays = <<>>
    /\ nops = 0
    /\ last = NoCall
    /\ hist = NoHist

PutNext ==
    \/ \E i \in DOMAIN task : PutBegin(i)
    \/ \E i \in DOMAIN task : PutOpen(i, "ok")
    \/ \E i \in DOMAIN task : PutOpen(i, "open_fail")
    \/ \E i \in DOMAIN task : PutDump(i, "ok")
    \/ \E i \in DOMAIN task : PutDump(i, "dump_fail")

PutSpec == PutInit /\ [][PutNext]_vars

(* ------------------------------ properties ----------------------------- *)
IsFetch(c) == c.op \in {"fetch_range", "fetch_tf"}
IsPut(c) == c.op \in {"save_range", "save"}
IsGet(c) == c.op \in {"load_range", "load"}

\* this step completes a top-level call (last' is that call)
Completes == nops' = nops + 1

\* a valid non-empty entry is stored in directory d under path
ValidEntry(d, path) ==
    path \in DOMAIN d /\ d[path].kind = "df" /\ d[path].df # EmptyTable

\* this step is the start of a fetch; StartedPath is the file its lookup reads
StartsFetch ==
    /\ pc = "idle"
    /\ \/ pc' # "idle"
       \/ Completes /\ IsFetch(last')
StartedPath == IF pc' # "idle" THEN cur'.path ELSE last'.path

\* C1 (cache short-circuit): in both fetch operations, when the file the
\* fetch looks up holds a valid non-empty table at the start of the fetch,
\* the fetch ends in that very step, returns the stored table, has called the
\* network zero times and slept zero times, and leaves the directory alone.
C1_CacheShortCircuit ==
    [][(StartsFetch /\ ValidEntry(disk, StartedPath))
          => /\ pc' = "idle"
             /\ last'.st = "value"
             /\ last'.val = disk[last'.path].df
             /\ last'.calls = 0
             /\ last'.delays = <<>>
             /\ disk' = disk]_vars

\* a range-mode fetch was served from an entry an earlier call had stored
C1_Witness ==
    /\ last.op = "fetch_range"
    /\ last.hit
    /\ last.calls = 0
    /\ ValidEntry(disk, last.path)
    /\ last.val = disk[last.path].df

\* C2 (range-mode round trip): a put of table T through _save_to_cache_range
\* on the path of (ticker, start, end) that returned True, directly followed
\* by _load_from_cache_range on the path of the same (ticker, start, end),
\* makes the get return T with its index normalized to dates, not None.
C2_RangeRoundTrip ==
    [][(/\ last.op = "save_range" /\ last.st = "true"
        /\ Completes /\ last'.op = "load_range"
        /\ last'.path = _get_cache_path(last.ticker, last.a, last.b))
          => /\ last'.st = "value"
             /\ last'.val = NormalizeIndex(last.arg)]_vars

\* a get returned the table of an intraday-stamped put, normalized (the
\* directory starts without range-mode files: the entry comes from a put)
C2_Witness ==
    /\ last.op = "load_range"
    /\ last.st = "value"
    /\ nops >= 2
    /\ last.val \in {NormalizeIndex(t) : t \in {u \in Tables : NormalizeIndex(u) # u}}
    /\ disk[last.path] = Pickled(last.val)

\* C3 (interval-mode round trip), as claimed: _save_to_cache(T, ticker,
\* interval) that returned True, directly followed by _load_from_cache(ticker,
\* interval), makes the get return T (index normalized), not None.
C3_IntervalRoundTrip ==
    [][(/\ last.op = "save" /\ last.st = "true"
        /\ Completes /\ last'.op = "load"
        /\ last'.ticker = last.ticker /\ last'.a = last.a)
          => /\ last'.st = "value"
             /\ last'.val = NormalizeIndex(last.arg)]_vars

\* C4 (re-fetch is served from the cache), as claimed, in both modes: after
\* a fetch that got a non-empty table from the network and wrote it to the
\* cache, the directly following fetch of the same request returns that table
\* from the cache with no network call.
C4_RefetchFromCache ==
    [][(/\ IsFetch(last) /\ ~last.hit /\ last.st = "value" /\ last.wrote = "ok"
        /\ Completes /\ last'.op = last.op
        /\ last'.ticker = last.ticker /\ last'.a = last.a /\ last'.b = last.b)
          => /\ last'.hit
             /\ last'.val = last.val
             /\ last'.calls = 0]_vars

PersistPath(c) == IF c.op = "fetch_range" THEN c.path ELSE SavePath(c.ticker, c.a)
Persisted(c) ==
    /\ PersistPath(c) \in DOMAIN disk
    /\ disk[PersistPath(c)] = Pickled(NormalizeIndex(c.arg))

\* the part of C6 that does not depend on the write: a fetch that got the
\* non-empty table R on a call made k failed calls before it and none after
\* it (k + 1 calls), and returns R (its index normalized in place by the put)
FirstSuccessEndsFetch(c) ==
    /\ c.calls = c.fails + 1
    /\ c.calls <= c.max
    /\ c.st = "value"
    /\ c.val = NormalizeIndex(c.arg)

\* C6 (retry until first success), as claimed: ... and R is what is
\* persisted under the request's key.
C6_FirstSuccess_Original ==
    (pc = "idle" /\ IsFetch(last) /\ last.arg # EmptyTable)
        => FirstSuccessEndsFetch(last) /\ Persisted(last)

\* C6, amended: as claimed, but R is persisted under the request's key when
\* the cache write succeeds (a failed write is logged and ignored).
C6_FirstSuccess ==
    (pc = "idle" /\ IsFetch(last) /\ last.arg # EmptyTable)
        => /\ FirstSuccessEndsFetch(last)
           /\ (last.wrote = "ok" => Persisted(last))

\* fail, fail, succeed: three calls, the third result returned and stored
C6_Witness ==
    /\ last.op = "fetch_range"
    /\ last.fails = 2
    /\ last.calls = 3
    /\ last.st = "value"
    /\ last.wrote = "ok"
    /\ Persisted(last)

\* the range-mode files of (ticker, normalized start) in the directory
RangeFilesOf(ticker, nstart) ==
    {f \in DOMAIN disk : Len(f) = 6 /\ f[1] = ticker /\ f[3] = nstart}

\* every (ticker, start) put so far has exactly one file, the one of its most
\* recent put, holding the table of that put
OneFilePerStart ==
    \A k \in DOMAIN hist.recent :
        /\ RangeFilesOf(k[1], k[2]) = {hist.recent[k].path}
        /\ disk[hist.recent[k].path] = Pickled(hist.recent[k].df)

C8_EmptyRejected ==
    /\ [][(Completes /\ IsPut(last') /\ last'.arg = EmptyTable)
             => (last'.st = "false" /\ disk' = disk)]_vars
    /\ [](\A f \in DOMAIN disk : disk[f].kind = "df" => disk[f].df # EmptyTable)

\* an empty range-mode put was rejected while a sibling entry (same ticker
\* and start, another end) was on disk, and the sibling stayed
C8_Witness ==
    /\ last.op = "save_range"
    /\ last.arg = EmptyTable
    /\ last.st = "false"
    /\ \E f \in RangeFilesOf(last.ticker, _normalize_date(last.a)) :
           f # last.path /\ ValidEntry(disk, f)

\* C9 (corruption self-heal), as claimed: a get on a file that exists but
\* cannot be deserialized, whatever the error, returns None (does not raise)
\* and the file is gone afterwards.
C9_SelfHeal ==
    [][(/\ Completes /\ IsGet(last')
        /\ last'.path \in DOMAIN disk /\ disk[last'.path].kind = "bad")
          => /\ last'.st = "none"
             /\ last'.path \notin DOMAIN disk']_vars

\* C10 (a cache write failure does not fail the fetch): a fetch whose put
\* failed on a write error returns the table the network returned (index
\* normalized in place by the put), not None, and that network call was its
\* last one.
C10_WriteFailureIgnored ==
    (IsFetch(last) /\ last.wrote \in {"open_fail", "dump_fail"})
        => /\ last.arg # EmptyTable
           /\ last.st = "value"
           /\ last.val = NormalizeIndex(last.arg)
           /\ last.calls = last.fails + 1

\* a range-mode fetch returned its table although the write left a truncated file
C10_Witness ==
    /\ last.op = "fetch_range"
    /\ last.wrote = "dump_fail"
    /\ last.st = "value"
    /\ last.val # EmptyTable
    /\ disk[last.path] = Truncated

\* the workers inside the cache store: in a get (after exists()) or in a put
InStore(i) == task[i].pc \in {"read", "unlink", "open", "dump"}

\* C11 (no lost or corrupted write under concurrency), as claimed: in every
\* state of a run of the pool, when the put of a fetch has returned True and
\* no step of another put or sweep has touched its file since, the file
\* exists and holds the table that was put; a get running next to the put
\* does not delete or damage it.
C11_NoLostWrite ==
    \A i \in DOMAIN task :
        task[i].latest
            => /\ ValidEntry(disk, task[i].wpath)
               /\ disk[task[i].wpath].df = task[i].val

\* C12 (no partial reads), as claimed: the file a get is about to open is
\* absent or a fully written valid entry, and no get has ever been handed a
\* truncated or partially written file.
C12_NoPartialRead ==
    \A i \in DOMAIN task :
        /\ task[i].saw # "partial"
        /\ (task[i].pc = "read" /\ task[i].path \in DOMAIN disk
               => ValidEntry(disk, task[i].path))

\* C13 (concurrent requests for one key do not both hit the network), as
\* claimed, in range mode: never are two fetches of the same key under way at
\* once, both having called the network, when the first call of one of them
\* returned a non-empty table.
C13_SingleNetworkHit ==
    \A i, j \in DOMAIN task :
        (/\ i # j
         /\ task[i].mode = "range"
         /\ task[i].wpath = task[j].wpath
         /\ Running(i) /\ Running(j)
         /\ task[i].calls = 1 /\ task[i].fails = 0)
            => task[j].calls = 0

\* the tickers of the command line are pairwise distinct
DistinctTickers ==
    \A i, j \in DOMAIN run.args.tickers :
        run.args.tickers[i] = run.args.tickers[j] => i = j

SameMapping(p, q) == {p[i] : i \in DOMAIN p} = {q[i] : i \in DOMAIN q}

\* C15 (key canonicalization): the key derived from (ticker, parameter
\* mapping) is the key derived from every other insertion order of the same
\* mapping; the mapping {start: 2023-01-01, interval: 1d} of AAPL gives
\* ticker=AAPL_interval=1d_start=2023-01-01 in both of its orders.
C15_KeyCanonical ==
    keyq.key # <<>>
        => /\ \A p \in ParamLists :
                 SameMapping(p, keyq.params) => _get_cache_key(keyq.ticker, p) = keyq.key
           /\ (/\ keyq.ticker = "AAPL"
               /\ SameMapping(keyq.params, <<<<"start", "2023-01-01">>, <<"interval", "1d">>>>))
                 => keyq.key = <<"ticker=", "AAPL", "_", "interval", "=", "1d",
                                 "_", "start", "=", "2023-01-01">>

\* the key of the example was derived from the order that starts with start
C15_Witness ==
    /\ keyq.ticker = "AAPL"
    /\ keyq.params = <<<<"start", "2023-01-01">>, <<"interval", "1d">>>>
    /\ keyq.key = <<"ticker=", "AAPL", "_", "interval", "=", "1d", "_", "start", "=", "2023-01-01">>

\* some task of the run returned a non-empty table
SomeFetchSucceeded ==
    \E i \in DOMAIN task : task[i].st = "value" /\ task[i].val # EmptyTable

\* one task per ticker of the command line, in order, each run to its end
EachTickerFetchedOnce ==
    /\ DOMAIN task = DOMAIN run.args.tickers
    /\ \A i \in DOMAIN task :
          task[i].ticker = run.args.tickers[i] /\ task[i].pc = "done"

\* C16 (CLI exit code), as claimed: a run with arguments that pass the
\* validation returns 0 when some ticker's fetch produced a non-empty table
\* and 1 when every fetch failed, and every ticker of the command line has
\* been fetched exactly once.
C16_ExitCode_Original ==
    (run.pc = "done" /\ Validate(run.args) = "ok")
        => /\ run.ret = IF SomeFetchSucceeded THEN "0" ELSE "1"
           /\ EachTickerFetchedOnce

\* C16, amended: the same for a run that asks for no market listing and is
\* not interrupted by the user (the market listing returns before any fetch,
\* without a value; an interrupted run returns 1 whatever was fetched).
C16_ExitCode ==
    (/\ run.pc = "done" /\ Validate(run.args) = "ok"
     /\ run.args.market = None /\ ~run.interrupted)
        => /\ run.ret = IF SomeFetchSucceeded THEN "0" ELSE "1"
           /\ EachTickerFetchedOnce

\* a batch of two returned 0 with one ticker fetched and the other one failed
C16_Witness ==
    /\ run.pc = "done"
    /\ ~run.interrupted
    /\ run.ret = "0"
    /\ Len(run.args.tickers) = 2
    /\ \E i, j \in DOMAIN task :
          /\ task[i].st = "value"
          /\ task[j].st = "none" /\ task[j].calls = default_max_retries

\* is s of the form YYYY-MM-DD
IsDateForm(s) == Chars(s) = <<"d", "d", "d", "d", "-", "d", "d", "-", "d", "d">>

\* a start or end date that is not of the form YYYY-MM-DD, or an interval
\* that is not supported
InvalidInput(a) ==
    \/ a.start # None /\ ~IsDateForm(a.start)
    \/ a.end # None /\ ~IsDateForm(a.end)
    \/ a.interval \notin valid_intervals

\* C17 (invalid input is rejected before any activity), as claimed, for runs
\* that ask for no market listing: once main() is past its validation with
\* such input it has returned 1, has constructed no fetcher and has
\* submitted no fetch (no cache access, no network call).
C17_InvalidRejected ==
    (run.pc \notin {"none", "start"} /\ run.args.market = None /\ InvalidInput(run.args))
        => /\ run.pc = "done"
           /\ run.ret = "1"
           /\ ~run.fetcher
           /\ task = <<>>

\* C18 (backoff schedule): in every task of the pool, in both modes and in
\* every interleaving with the other tasks, one sleep has been taken per
\* network call, the first is base_delay, each is twice the one before, and
\* the sleep before attempt i (from 0) is base_delay * 2^i.
C18_BackoffSchedule ==
    \A i \in DOMAIN task :
        LET d == task[i].delays IN
        /\ Len(d) = task[i].calls
        /\ (task[i].pc = "loop" => task[i].attempt = Len(d))
        /\ \A k \in 1..Len(d) : d[k] = base_delay * (2 ^ (k - 1))
        /\ \A k \in 1..(Len(d) - 1) : d[k + 1] = 2 * d[k] /\ d[k + 1] > d[k]

\* a task has slept before each of its default_max_retries attempts while
\* another task, started at attempt 0 of its own, is on an earlier attempt
C18_Witness ==
    \E i, j \in DOMAIN task :
        /\ Len(task[i].delays) = default_max_retries
        /\ task[i].delays[default_max_retries] = base_delay * 16
        /\ task[j].pc = "loop"
        /\ task[j].delays = <<base_delay, 2 * base_delay>>

\* C19 (cache access is mutually exclusive), as claimed: at most one worker
\* is inside a get or a put of the cache store at any time.
C19_StoreMutex ==
    Cardinality({i \in DOMAIN task : InStore(i)}) <= 1

\* C20 (put never raises on a write error), as claimed: a put of a non-empty
\* table, in either mode, whose write of the destination file failed or
\* which could not delete a sibling, has returned False; it has not raised.
C20_PutNeverRaises ==
    (/\ IsPut(last) /\ last.arg # EmptyTable
     /\ (last.wrote # "ok" \/ last.kept # {}))
        => last.st = "false"

\* C22 (user interrupt during a batch), as claimed: once the interrupt has
\* arrived while main() collects results, no task that has not started is
\* started; the tasks that run go on to their end; and when main() has
\* returned after the interrupt, it returned 1, every task that had started
\* has ended and no cache file holds a partial write.
C22_InterruptStopsBatch ==
    /\ [][run.interrupted =>
             \A i \in DOMAIN task :
                 /\ task[i].pc = "queued" => task'[i].pc = "queued"
                 /\ task[i].pc = "done" => task'[i].pc = "done"]_vars
    /\ []((run.pc = "done" /\ run.interrupted) =>
             /\ run.ret = "1"
             /\ \A i \in DOMAIN task : task[i].pc \in {"queued", "done"}
             /\ \A f \in DOMAIN disk : disk[f].kind = "df")

\* the file f is a range-mode entry whose key has the ticker and the
\* normalized start of the put t
SameKey(f, t) == Len(f) = 6 /\ f[1] = t.ticker /\ f[3] = _normalize_date(t.start)
SameStart(i, j) ==
    /\ task[i].ticker = task[j].ticker
    /\ _normalize_date(task[i].start) = _normalize_date(task[j].start)

\* C21 (sibling exclusivity under concurrency), as claimed: when the puts
\* that run together for one ticker and one start, with different ends, have
\* all returned True, the directory holds exactly one file of that ticker
\* and start.
C21_SiblingExclusive ==
    \A i \in DOMAIN task :
        LET G == {j \in DOMAIN task : SameStart(i, j)} IN
        (/\ \A j \in G : task[j].pc = "done" /\ task[j].put = "true"
         /\ \E j \in G : task[j].wpath # task[i].wpath)
            => Cardinality({f \in DOMAIN disk : SameKey(f, task[i])}) = 1

\* C23 (frame of the stale-entry sweep), as claimed: a step of a range-mode
\* put leaves every file on disk, with its content, that is not a range-mode
\* entry of the put's ticker and normalized start: the entries of another
\* ticker, those of the same ticker with another start, and the
\* interval-mode entries.
C23_SweepFrame ==
    [][\A i \in DOMAIN task :
          task'[i].pc # task[i].pc =>
              \A f \in DOMAIN disk :
                  ~SameKey(f, task[i]) => (f \in DOMAIN disk' /\ disk'[f] = disk[f])]_vars

====
